---- MODULE Spec2Model ----
(***************************************************************************)
(* A model of bevy_net's easy_sockets engine and QUIC runtime adapter:     *)
(*   - SocketManger / SocketEntry / OwnedBuffer  (socket_manager.rs)       *)
(*   - TcpStreamBuffer and PeakIter              (net_buffer_types/mod.rs) *)
(*   - BevyQuinnRuntime, QuinnUdp, QuinnPoller, IoTimer  (quic.rs)         *)
(*                                                                         *)
(* The specifications share the variables.                                 *)
(*   Spec       the manager as written: register, the owner dropping its   *)
(*              handle, and SocketManger::update, whose spawned task calls *)
(*              `entrey.update();` WITHOUT `.await` (line 127), so the     *)
(*              future is built and discarded and its body never runs.     *)
(*              SpecFair adds that the executor keeps polling the          *)
(*              manager's update and that the pool runs spawned tasks.     *)
(*   SpecEntry  one SocketEntry as register builds it, with                *)
(*              SocketEntry::update polled to completion (the three hooks  *)
(*              of TcpStreamBuffer under the buffer's lock), the owner's   *)
(*              queueing and peeking concurrent with it.                   *)
(*   SpecGeneric  two entries of a generic Buffer implementor, whose hooks *)
(*              return any UpdateResult, with SocketEntry::update polled.  *)
(*   SpecQuic   the runtime adapter: the timer, poll_recv and the poller,  *)
(*              polled at any time, with the wake tasks they spawn;        *)
(*              SpecQuicFair adds that the pool runs spawned tasks and     *)
(*              that a woken task polls again.                             *)
(*                                                                         *)
(* Bytes are numbered in stream order (the k-th byte queued by the owner   *)
(* is k, the k-th byte delivered by the peer is k): the code never looks   *)
(* at a byte's value, and distinct bytes make any reordering visible.      *)
(***************************************************************************)
EXTENDS Integers, Sequences, FiniteSets, TLC

\* ------------------------------------------------------------- bounds
\* register calls made on the manager
MaxSockets == 3
\* chunks the owner queues on one buffer
MaxWrites == 2
\* bytes in one chunk queued by the owner
MaxChunkLen == 2
\* chunks held in incoming before updates of the entry stop being driven
MaxIncoming == 2
\* bytes one read_to_end delivers
MaxRead == 1
\* the last instant of the clock
MaxTime == 1
\* wake tasks of one poll function spawned and not yet run
MaxWakes == 2
\* calls of poll_writable counted on one poller
MaxPolls == 3

Ids == 1..MaxSockets

\* Option<T>: None is the empty sequence, Some(x) the one-element sequence.
None == <<>>

Some(x) == <<x>>

\* io::ErrorKind values write_vectored is let fail with: the five kinds
\* flush_write_bufs names, WouldBlock, and one kind it does not name.
ErrorKinds ==
    {"WouldBlock", "WriteZero", "ConnectionRefused", "ConnectionReset",
     "ConnectionAborted", "NotConnected", "BrokenPipe"}

\* io::ErrorKind values read_to_end is let fail with; fill_read_bufs does
\* not look at the kind.
ReadErrorKinds == {"WouldBlock", "ConnectionReset"}

\* Outcomes of Buffer::build for a generic Buffer implementor.
BuildResults == {"Ok", "Err"}

\* UpdateResult = Result<(), ErrorAction> as a hook of a generic Buffer
\* implementor returns it: Ok(()), Err(Retry) or Err(Drop).
UpdateResults == {"Ok", "Retry", "Drop"}

\* The three poll functions of the runtime adapter: IoTimer::poll,
\* QuinnUdp::poll_recv and QuinnPoller::poll_writable.
PollFns == {"timer", "recv", "writable"}

\* Instants of the clock.
Instants == 0..MaxTime

\* What UdpSocketState::recv returns: a datagram, or an io::Error of kind
\* WouldBlock or of another kind.
RecvOutcomes == {"Ok", "WouldBlock", "ConnectionReset"}

VARIABLES
    \* ---- SocketManger and its entries
    sockets,        \* SocketManger.sockets: Vec<SocketEntry>, as entry ids
    socket,         \* SocketEntry.socket: Option<S>
    drop_flag,      \* SocketEntry.drop_flag
    data,           \* SocketEntry.data: TcpStreamDiagnostics
    owner,          \* the application still holds the entry's OwnedBuffer
    nextId,         \* the next socket handed to register
    regResult,      \* what the last register call returned
    mpc,            \* position of SocketManger::update
    tasks,          \* the Vec of spawned tasks of the running cycle
    \* ---- SocketEntry::update, polled
    pc,             \* position of the entry's update
    lock,           \* who holds the buffer's SpinLock
    write_result,   \* BufferUpdateResult.write_result
    read_result,    \* BufferUpdateResult.read_result
    additional_result,
    \* ---- TcpStreamBuffer
    terminal_error,
    bytes_read_last,
    incoming,
    outgoing,
    \* ---- PeakIter
    peek,
    \* ---- the environment and the history the claims speak of
    sent,           \* bytes the socket accepted, in order
    queued,         \* every chunk the owner queued, in order
    rnext,          \* number of the next byte the peer delivers
    wio,            \* last write_vectored outcome of the current update
    rio,            \* read_to_end outcome of the current update
    hooks,          \* hooks invoked on the entry in the current cycle/update
    dropStage,      \* how far the manager is past the owner's drop
    liveAtStart,    \* entries live when the running/last cycle started
    cycleDone,      \* the last cycle has returned and none has started since
    \* ---- the runtime adapter of quic.rs
    poller,         \* QuinnPoller.0
    expiry,         \* IoTimer.expiry
    now,            \* what Instant::now() returns
    rx,             \* what the next UdpSocketState::recv returns
    res,            \* the last Poll each of the three poll functions returned
    woken,          \* the polling task's waker has been called since its last poll
    wakes,          \* spawned `waker.wake()` tasks that have not run yet
    wcalls,         \* calls of poll_writable made on the poller
    wpendings,      \* how many of them returned Pending
    completed       \* the timer has reported completion at least once

quicVars ==
    <<poller, expiry, now, rx, res, woken, wakes, wcalls, wpendings, completed>>

easyVars ==
    <<sockets, socket, drop_flag, data, owner, nextId, regResult, mpc, tasks,
      pc, lock, write_result, read_result, additional_result,
      terminal_error, bytes_read_last, incoming, outgoing, peek,
      sent, queued, rnext, wio, rio, hooks, dropStage, liveAtStart, cycleDone>>

vars == <<easyVars, quicVars>>

mgrVars == <<sockets, nextId, regResult, mpc, tasks, liveAtStart, cycleDone>>

entryVars == <<socket, drop_flag, data>>

taskVars == <<pc, lock, write_result, read_result, additional_result>>

bufVars == <<terminal_error, bytes_read_last, incoming, outgoing>>

envVars == <<sent, queued, rnext, wio, rio>>

\* ------------------------------------------------------------ helpers
Range(s) == {s[i] : i \in 1..Len(s)}

RECURSIVE Flatten(_)
Flatten(q) == IF q = <<>> THEN <<>> ELSE Head(q) \o Flatten(Tail(q))

IsPrefix(a, b) == Len(a) <= Len(b) /\ a = SubSeq(b, 1, Len(a))

\* The bytes numbered from+1 .. from+n, in order.
Bytes(from, n) == [i \in 1..n |-> from + i]

\* Faulty variant: the upgraded Arc outlives the update that cleared the
\* socket.
TaskHoldsArcBug(e) ==
    \/ pc[e] \in {"lock", "flush", "fill", "additional", "finish"}
    \/ e \in Range(sockets) /\ socket[e] = None

\* Weak::upgrade resolves while a strong reference exists: the owner's
\* OwnedBuffer, or the Arc an update of the entry holds between its own
\* upgrade (if let Some(buffer) = self.buffer.upgrade()) and its return.
TaskHoldsArc(e) == pc[e] \in {"lock", "flush", "fill", "additional", "finish"}

Resolves(e) == owner[e] \/ TaskHoldsArc(e)

\* SpinLock::lock and SpinLock::lock_async return a guard only when no other
\* guard of the lock is alive.
SpinLockFree(e) == lock[e] = "free"

\* TcpStreamBuffer::build
BuildBuffer ==
    [terminal_error |-> "None", bytes_read_last |-> 0,
     incoming |-> <<>>, outgoing |-> <<>>]

NoPeek == [active |-> FALSE, outer |-> 0, inner |-> None, out |-> <<>>, done |-> FALSE]

\* ------------------------------------------------------------ Init
\* The adapter's objects before any of them is made or polled.
AdapterUnused ==
    /\ poller = FALSE
    /\ expiry = 0
    /\ now = 0
    /\ rx = "WouldBlock"
    /\ res = [t \in PollFns |-> "none"]
    /\ woken = [t \in PollFns |-> FALSE]
    /\ wakes = [t \in PollFns |-> 0]
    /\ wcalls = 0
    /\ wpendings = 0
    /\ completed = FALSE

\* A manager with no entry (SocketManger { sockets: Vec::new() }).
InitManager ==
    /\ sockets = <<>>
    /\ socket = [e \in Ids |-> None]
    /\ drop_flag = [e \in Ids |-> FALSE]
    /\ data = [e \in Ids |-> [written |-> 0, read |-> 0]]
    /\ owner = [e \in Ids |-> FALSE]
    /\ nextId = 1
    /\ regResult = [tag |-> "none"]
    /\ mpc = "idle"
    /\ tasks = <<>>
    /\ pc = [e \in Ids |-> "idle"]
    /\ lock = [e \in Ids |-> "free"]
    /\ write_result = [e \in Ids |-> "-"]
    /\ read_result = [e \in Ids |-> "-"]
    /\ additional_result = [e \in Ids |-> "-"]
    /\ terminal_error = [e \in Ids |-> "None"]
    /\ bytes_read_last = [e \in Ids |-> 0]
    /\ incoming = [e \in Ids |-> <<>>]
    /\ outgoing = [e \in Ids |-> <<>>]
    /\ peek = [e \in Ids |-> NoPeek]
    /\ sent = [e \in Ids |-> <<>>]
    /\ queued = [e \in Ids |-> <<>>]
    /\ rnext = [e \in Ids |-> 0]
    /\ wio = [e \in Ids |-> "none"]
    /\ rio = [e \in Ids |-> "none"]
    /\ hooks = [e \in Ids |-> <<>>]
    /\ dropStage = [e \in Ids |-> "held"]
    /\ liveAtStart = {}
    /\ cycleDone = FALSE

Init == InitManager /\ AdapterUnused

\* ------------------------------------------------- SocketManger::register
\* The entry register pushes on success: SocketEntry { buffer: weak,
\* socket: Some(socket), data: Default::default(), drop_flag: false }.
RegisterOk(s) ==
    /\ sockets' = Append(sockets, s)
    /\ socket' = [socket EXCEPT ![s] = Some(s)]
    /\ drop_flag' = [drop_flag EXCEPT ![s] = FALSE]
    /\ data' = [data EXCEPT ![s] = [written |-> 0, read |-> 0]]
    /\ terminal_error' = [terminal_error EXCEPT ![s] = BuildBuffer.terminal_error]
    /\ bytes_read_last' = [bytes_read_last EXCEPT ![s] = BuildBuffer.bytes_read_last]
    /\ incoming' = [incoming EXCEPT ![s] = BuildBuffer.incoming]
    /\ outgoing' = [outgoing EXCEPT ![s] = BuildBuffer.outgoing]
    /\ owner' = [owner EXCEPT ![s] = TRUE]
    /\ regResult' = [tag |-> "Ok", buffer |-> s]

\* Faulty variant of the Err arm: the entry is pushed although build failed.
RegisterErrBug(s) ==
    /\ sockets' = Append(sockets, s)
    /\ socket' = [socket EXCEPT ![s] = Some(s)]
    /\ regResult' = [tag |-> "Err", socket |-> s, error |-> "ConstructionError"]
    /\ UNCHANGED <<drop_flag, data, owner, bufVars>>

\* Err(error) => return Err((socket, error)): nothing else is touched.
RegisterErr(s) ==
    /\ regResult' = [tag |-> "Err", socket |-> s, error |-> "ConstructionError"]
    /\ UNCHANGED <<sockets, entryVars, owner, bufVars>>

\* register(&mut self, socket): `update` borrows the manager mutably for the
\* whole cycle, so register runs only between cycles.
Register(s, b) ==
    /\ mpc = "idle"
    /\ s = nextId
    /\ nextId <= MaxSockets
    /\ nextId' = nextId + 1
    /\ IF b = "Ok" THEN RegisterOk(s) ELSE RegisterErr(s)
    /\ UNCHANGED <<mpc, tasks, taskVars, peek, envVars, hooks, dropStage,
                   liveAtStart, cycleDone>>
    /\ UNCHANGED quicVars

\* The application drops its OwnedBuffer (the only strong handle it has).  A
\* PeakIter borrows the handle, so none is alive at the drop.
DropHandle(e) ==
    /\ owner[e]
    /\ ~peek[e].active
    /\ owner' = [owner EXCEPT ![e] = FALSE]
    /\ dropStage' = [dropStage EXCEPT ![e] = "dropped"]
    /\ UNCHANGED <<mgrVars, entryVars, taskVars, bufVars, peek, envVars, hooks>>
    /\ UNCHANGED quicVars

\* --------------------------------------------------- SocketManger::update
\* let mut tasks = Vec::with_capacity(self.sockets.len());
UpdateBegin ==
    /\ mpc = "idle"
    /\ mpc' = "spawn"
    /\ tasks' = <<>>
    /\ liveAtStart' = {e \in Range(sockets) : Resolves(e) /\ socket[e] # None}
    /\ cycleDone' = FALSE
    /\ hooks' = [e \in Ids |-> <<>>]
    /\ dropStage' = [e \in Ids |->
                        IF dropStage[e] = "dropped" THEN "cycleStarted"
                        ELSE dropStage[e]]
    /\ UNCHANGED <<sockets, nextId, regResult, entryVars, owner, taskVars,
                   bufVars, peek, envVars>>
    /\ UNCHANGED quicVars

\* while let Some(entry) = self.sockets.pop() { tasks.push(spawn(..)) }
UpdateSpawn ==
    /\ mpc = "spawn"
    /\ IF sockets # <<>>
       THEN /\ sockets' = SubSeq(sockets, 1, Len(sockets) - 1)
            /\ tasks' = Append(tasks, [entry |-> sockets[Len(sockets)],
                                       state |-> "spawned", out |-> None])
            /\ mpc' = mpc
       ELSE /\ mpc' = "join"
            /\ UNCHANGED <<sockets, tasks>>
    /\ UNCHANGED <<nextId, regResult, liveAtStart, cycleDone, entryVars, owner,
                   taskVars, bufVars, peek, envVars, hooks, dropStage>>
    /\ UNCHANGED quicVars

\* Faulty variant: one entry whose handle is gone makes every task return
\* None.
TaskOutputBug(e) ==
    IF drop_flag[e] \/ (\E f \in Ids : socket[f] # None /\ ~owner[f])
    THEN None ELSE Some(e)

\* What the spawned block returns: if entrey.drop_flag { None } else { Some(entrey) }
TaskOutput(e) == IF drop_flag[e] THEN None ELSE Some(e)

\* Faulty variant: the block does not finish while the owner holds its
\* handle.
TaskRunBug(i) ==
    /\ i \in 1..Len(tasks)
    /\ tasks[i].state = "spawned"
    /\ ~owner[tasks[i].entry]
    /\ tasks' = [tasks EXCEPT ![i] = [entry |-> tasks[i].entry, state |-> "done",
                                      out |-> TaskOutput(tasks[i].entry)]]
    /\ UNCHANGED <<sockets, nextId, regResult, mpc, liveAtStart, cycleDone,
                   entryVars, owner, taskVars, bufVars, peek, envVars, hooks,
                   dropStage>>
    /\ UNCHANGED quicVars

\* The spawned block on the task pool.  `entrey.update();` builds the future
\* of SocketEntry::update and drops it unpolled: no statement of update or
\* of try_update_buffer runs, so the entry is as it was when the block
\* reads drop_flag.
TaskRun(i) ==
    /\ i \in 1..Len(tasks)
    /\ tasks[i].state = "spawned"
    /\ tasks' = [tasks EXCEPT ![i] = [entry |-> tasks[i].entry, state |-> "done",
                                      out |-> TaskOutput(tasks[i].entry)]]
    /\ UNCHANGED <<sockets, nextId, regResult, mpc, liveAtStart, cycleDone,
                   entryVars, owner, taskVars, bufVars, peek, envVars, hooks,
                   dropStage>>
    /\ UNCHANGED quicVars

\* Faulty variant: the entry a task hands back is pushed twice.
UpdateJoinBug ==
    /\ mpc = "join"
    /\ IF tasks # <<>>
       THEN /\ Head(tasks).state = "done"
            /\ sockets' = IF Head(tasks).out = None THEN sockets
                          ELSE sockets \o <<Head(tasks).out[1], Head(tasks).out[1]>>
            /\ tasks' = Tail(tasks)
            /\ UNCHANGED <<mpc, cycleDone, dropStage>>
       ELSE /\ mpc' = "idle"
            /\ cycleDone' = TRUE
            /\ dropStage' = [e \in Ids |->
                                IF dropStage[e] = "cycleStarted" THEN "cycleDone"
                                ELSE dropStage[e]]
            /\ UNCHANGED <<sockets, tasks>>
    /\ UNCHANGED <<nextId, regResult, liveAtStart, entryVars, owner, taskVars,
                   bufVars, peek, envVars, hooks>>
    /\ UNCHANGED quicVars

\* for task in tasks { if let Some(entry) = task.await { self.sockets.push(entry) } }
UpdateJoin ==
    /\ mpc = "join"
    /\ IF tasks # <<>>
       THEN /\ Head(tasks).state = "done"
            /\ sockets' = IF Head(tasks).out = None THEN sockets
                          ELSE Append(sockets, Head(tasks).out[1])
            /\ tasks' = Tail(tasks)
            /\ UNCHANGED <<mpc, cycleDone, dropStage>>
       ELSE /\ mpc' = "idle"
            /\ cycleDone' = TRUE
            /\ dropStage' = [e \in Ids |->
                                IF dropStage[e] = "cycleStarted" THEN "cycleDone"
                                ELSE dropStage[e]]
            /\ UNCHANGED <<sockets, tasks>>
    /\ UNCHANGED <<nextId, regResult, liveAtStart, entryVars, owner, taskVars,
                   bufVars, peek, envVars, hooks>>
    /\ UNCHANGED quicVars

\* ------------------------------------------------- SocketEntry::update
\* The manager's task keeps an entry only while its drop_flag is unset
\* (if entrey.drop_flag { None }): an entry whose flag is set is not updated
\* again.
Retired(e) == drop_flag[e]

\* Faulty variant: only the weak reference is tested, not the socket.
TryUpdateOkBug(e) == Resolves(e)

\* try_update_buffer's two tests: the weak reference upgrades and the socket
\* is present.  Either failing is Err(()).
TryUpdateOk(e) == Resolves(e) /\ socket[e] # None

\* update() is polled: try_update_buffer runs up to its lock_async().await,
\* or returns Err(()) and update sets drop_flag (Err(_) => drop_flag = true).
EntryUpdateStart(e) ==
    /\ e \in Range(sockets)
    /\ pc[e] = "idle"
    /\ ~Retired(e)
    /\ Len(incoming[e]) < MaxIncoming
    /\ IF TryUpdateOk(e)
       THEN /\ pc' = [pc EXCEPT ![e] = "lock"]
            /\ UNCHANGED drop_flag
       ELSE /\ drop_flag' = [drop_flag EXCEPT ![e] = TRUE]
            /\ UNCHANGED pc
    /\ UNCHANGED <<mgrVars, socket, data, owner, lock, write_result, read_result,
                   additional_result, bufVars, peek, envVars, hooks, dropStage>>
    /\ UNCHANGED quicVars

\* Faulty variant: the guard is not kept (a temporary dropped at once), so
\* the hooks run without the lock.
AcquireLockBug(e) ==
    /\ pc[e] = "lock"
    /\ SpinLockFree(e)
    /\ pc' = [pc EXCEPT ![e] = "flush"]
    /\ data' = [data EXCEPT ![e].written = 0]
    /\ hooks' = [hooks EXCEPT ![e] = Append(hooks[e], "flush")]
    /\ UNCHANGED <<mgrVars, socket, drop_flag, owner, lock, write_result,
                   read_result, additional_result, bufVars, peek, envVars,
                   dropStage>>
    /\ UNCHANGED quicVars

\* let mut guard = buffer.lock_async().await.unwrap(): the task is suspended
\* until the lock is free.  With the guard taken the first hook starts:
\* flush_write_bufs opens with data.written = 0.
AcquireLock(e) ==
    /\ pc[e] = "lock"
    /\ SpinLockFree(e)
    /\ lock' = [lock EXCEPT ![e] = "task"]
    /\ pc' = [pc EXCEPT ![e] = "flush"]
    /\ data' = [data EXCEPT ![e].written = 0]
    /\ hooks' = [hooks EXCEPT ![e] = Append(hooks[e], "flush")]
    /\ UNCHANGED <<mgrVars, socket, drop_flag, owner, write_result, read_result,
                   additional_result, bufVars, peek, envVars, dropStage>>
    /\ UNCHANGED quicVars

\* VecDeque::as_slices: the chunk as two contiguous runs, the ring buffer
\* wrapping after h elements.
AsSlices(chunk, h) == <<SubSeq(chunk, 1, h), SubSeq(chunk, h + 1, Len(chunk))>>

\* Where the ring buffer of a chunk may wrap.
Wraps(chunk) == IF chunk = <<>> THEN {0} ELSE 1..Len(chunk)

\* write_vectored returning Ok(n): the first n bytes of the slices, in order.
Accepted(slices, n) == SubSeq(slices[1] \o slices[2], 1, n)

\* Faulty variant: the accepted bytes are cut from the back of the chunk.
AfterWriteBug(q, n) ==
    <<SubSeq(q[1], 1, Len(q[1]) - n)>> \o Tail(q)

\* if remaining == self.outgoing[0].len() { pop_front } else { drain(0..remaining) }
AfterWrite(q, n) ==
    IF n = Len(q[1]) THEN Tail(q)
    ELSE <<SubSeq(q[1], n + 1, Len(q[1]))>> \o Tail(q)

\* match error.kind() of flush_write_bufs: the terminal error recorded, or
\* "None" for the benign stop.
WriteErrorClass(kind) ==
    IF kind = "WriteZero" THEN "None"
    ELSE IF kind \in {"ConnectionRefused", "ConnectionReset",
                      "ConnectionAborted", "NotConnected"}
         THEN "NotConnected"
         ELSE "Unexpected"

\* One turn of flush_write_bufs's loop with a front chunk: write_vectored
\* returns Ok(n).
FlushWriteOk(e, h, n) ==
    /\ pc[e] = "flush"
    /\ outgoing[e] # <<>>
    /\ h \in Wraps(outgoing[e][1])
    /\ n \in 0..Len(outgoing[e][1])
    /\ IF n = 0
       THEN /\ write_result' = [write_result EXCEPT ![e] = "Ok"]
            /\ pc' = [pc EXCEPT ![e] = "fill"]
            /\ wio' = [wio EXCEPT ![e] = "Ok0"]
            /\ UNCHANGED <<data, outgoing, sent>>
       ELSE /\ data' = [data EXCEPT ![e].written = @ + n]
            /\ sent' = [sent EXCEPT ![e] = @ \o Accepted(AsSlices(outgoing[e][1], h), n)]
            /\ outgoing' = [outgoing EXCEPT ![e] = AfterWrite(@, n)]
            /\ wio' = [wio EXCEPT ![e] = "Ok"]
            /\ UNCHANGED <<write_result, pc>>
    /\ UNCHANGED <<mgrVars, socket, drop_flag, owner, lock, read_result,
                   additional_result, terminal_error, bytes_read_last, incoming,
                   peek, queued, rnext, rio, hooks, dropStage>>
    /\ UNCHANGED quicVars

\* One turn of the loop: write_vectored returns Err(error).
FlushWriteErr(e, kind) ==
    /\ pc[e] = "flush"
    /\ outgoing[e] # <<>>
    /\ wio' = [wio EXCEPT ![e] = kind]
    /\ pc' = [pc EXCEPT ![e] = "fill"]
    /\ IF WriteErrorClass(kind) = "None"
       THEN /\ write_result' = [write_result EXCEPT ![e] = "Ok"]
            /\ UNCHANGED terminal_error
       ELSE /\ terminal_error' = [terminal_error EXCEPT ![e] = WriteErrorClass(kind)]
            /\ write_result' = [write_result EXCEPT ![e] = "Drop"]
    /\ UNCHANGED <<mgrVars, entryVars, owner, lock, read_result,
                   additional_result, bytes_read_last, incoming, outgoing, peek,
                   sent, queued, rnext, rio, hooks, dropStage>>
    /\ UNCHANGED quicVars

\* A turn of the loop with outgoing empty: self.outgoing[0] is out of bounds
\* and panics.  The unwinding drops the guard and the upgraded Arc; the update
\* never returns.
FlushPanic(e) ==
    /\ pc[e] = "flush"
    /\ outgoing[e] = <<>>
    /\ pc' = [pc EXCEPT ![e] = "panicked"]
    /\ lock' = [lock EXCEPT ![e] = "free"]
    /\ wio' = [wio EXCEPT ![e] = "panic"]
    /\ UNCHANGED <<mgrVars, entryVars, owner, write_result, read_result,
                   additional_result, bufVars, peek, sent, queued, rnext, rio,
                   hooks, dropStage>>
    /\ UNCHANGED quicVars

\* fill_read_bufs, read_to_end returning Ok(n) with the n bytes read.
FillReadOk(e, n) ==
    /\ pc[e] = "fill"
    /\ n \in 0..MaxRead
    /\ hooks' = [hooks EXCEPT ![e] = Append(hooks[e], "fill")]
    /\ bytes_read_last' = [bytes_read_last EXCEPT ![e] = n]
    /\ data' = [data EXCEPT ![e].read = n]
    /\ incoming' = [incoming EXCEPT ![e] = Append(@, Bytes(rnext[e], n))]
    /\ rnext' = [rnext EXCEPT ![e] = @ + n]
    /\ rio' = [rio EXCEPT ![e] = "Ok"]
    /\ read_result' = [read_result EXCEPT ![e] = "Ok"]
    /\ pc' = [pc EXCEPT ![e] = "additional"]
    /\ UNCHANGED <<mgrVars, socket, drop_flag, owner, lock, write_result,
                   additional_result, terminal_error, outgoing, peek, sent,
                   queued, wio, dropStage>>
    /\ UNCHANGED quicVars

\* fill_read_bufs, read_to_end returning Err(error): every kind is terminal.
FillReadErr(e, kind) ==
    /\ pc[e] = "fill"
    /\ hooks' = [hooks EXCEPT ![e] = Append(hooks[e], "fill")]
    /\ data' = [data EXCEPT ![e].read = 0]
    /\ terminal_error' = [terminal_error EXCEPT ![e] = "Unexpected"]
    /\ rio' = [rio EXCEPT ![e] = kind]
    /\ read_result' = [read_result EXCEPT ![e] = "Drop"]
    /\ pc' = [pc EXCEPT ![e] = "additional"]
    /\ UNCHANGED <<mgrVars, socket, drop_flag, owner, lock, write_result,
                   additional_result, bytes_read_last, incoming, outgoing, peek,
                   sent, queued, rnext, wio, dropStage>>
    /\ UNCHANGED quicVars

\* additional_updates: Ok(()) and nothing else.
AdditionalUpdates(e) ==
    /\ pc[e] = "additional"
    /\ hooks' = [hooks EXCEPT ![e] = Append(hooks[e], "additional")]
    /\ additional_result' = [additional_result EXCEPT ![e] = "Ok"]
    /\ pc' = [pc EXCEPT ![e] = "finish"]
    /\ UNCHANGED <<mgrVars, entryVars, owner, lock, write_result, read_result,
                   bufVars, peek, envVars, dropStage>>
    /\ UNCHANGED quicVars

\* Faulty variant: the socket is dropped after every update.
ShouldDropSocketBug(w, r, a) == TRUE

\* update()'s Ok arm: the socket goes when the write or the read result is
\* Err(Drop); additional_result is not looked at.
ShouldDropSocket(w, r, a) == w = "Drop" \/ r = "Drop"

\* try_update_buffer returns (guard and Arc dropped) and update() acts on
\* the results, which end with the call; so does the record of what the
\* socket answered in this update.
UpdateFinish(e) ==
    /\ pc[e] = "finish"
    /\ lock' = [lock EXCEPT ![e] = "free"]
    /\ pc' = [pc EXCEPT ![e] = "idle"]
    /\ socket' = [socket EXCEPT ![e] =
                     IF ShouldDropSocket(write_result[e], read_result[e],
                                         additional_result[e])
                     THEN None ELSE @]
    /\ write_result' = [write_result EXCEPT ![e] = "-"]
    /\ read_result' = [read_result EXCEPT ![e] = "-"]
    /\ additional_result' = [additional_result EXCEPT ![e] = "-"]
    /\ wio' = [wio EXCEPT ![e] = "none"]
    /\ rio' = [rio EXCEPT ![e] = "none"]
    /\ hooks' = [hooks EXCEPT ![e] = <<>>]
    /\ UNCHANGED <<mgrVars, drop_flag, data, owner, bufVars, peek, sent, queued,
                   rnext, dropStage>>
    /\ UNCHANGED quicVars

\* ------------------------------------------------------------ the owner
\* The application queues a chunk of n bytes on outgoing through its handle,
\* under the buffer's lock (taken and released within the step).
OwnerWrite(e, n) ==
    /\ owner[e]
    /\ SpinLockFree(e)
    /\ Len(queued[e]) < MaxWrites
    /\ n \in 0..MaxChunkLen
    /\ outgoing' = [outgoing EXCEPT ![e] = Append(@, Bytes(Len(Flatten(queued[e])), n))]
    /\ queued' = [queued EXCEPT ![e] = Append(@, Bytes(Len(Flatten(queued[e])), n))]
    /\ UNCHANGED <<mgrVars, entryVars, owner, taskVars, terminal_error,
                   bytes_read_last, incoming, peek, sent, rnext, wio, rio,
                   hooks, dropStage>>
    /\ UNCHANGED quicVars

\* Faulty variant: the iterator is built without taking the lock.
PeakNewBug(e) ==
    /\ owner[e]
    /\ ~peek[e].active
    /\ peek' = [peek EXCEPT ![e] = [active |-> TRUE, outer |-> 0, inner |-> None,
                                    out |-> <<>>, done |-> FALSE]]
    /\ UNCHANGED <<mgrVars, entryVars, owner, taskVars, bufVars, envVars, hooks,
                   dropStage>>
    /\ UNCHANGED quicVars

\* PeakIter::new: stream.0.lock() spins until the lock is free; the guard
\* lives in the iterator.
PeakNew(e) ==
    /\ owner[e]
    /\ ~peek[e].active
    /\ SpinLockFree(e)
    /\ lock' = [lock EXCEPT ![e] = "owner"]
    /\ peek' = [peek EXCEPT ![e] = [active |-> TRUE, outer |-> 0, inner |-> None,
                                    out |-> <<>>, done |-> FALSE]]
    /\ UNCHANGED <<mgrVars, entryVars, owner, pc, write_result, read_result,
                   additional_result, bufVars, envVars, hooks, dropStage>>
    /\ UNCHANGED quicVars

\* PeakIter::next on iterator `it` over the chunks `inc`: outer counts the
\* chunks outer_iter has handed out, inner is None or <<chunk, bytes handed
\* out of it>>.  `yield` is the Option<u8> returned.
PeakIterNext(it, inc) ==
    IF it.inner # None /\ it.inner[2] < Len(inc[it.inner[1]])
    THEN [outer |-> it.outer, inner |-> <<it.inner[1], it.inner[2] + 1>>,
          yield |-> Some(inc[it.inner[1]][it.inner[2] + 1])]
    ELSE IF it.outer < Len(inc)
         THEN IF Len(inc[it.outer + 1]) > 0
              THEN [outer |-> it.outer + 1, inner |-> <<it.outer + 1, 1>>,
                    yield |-> Some(inc[it.outer + 1][1])]
              ELSE [outer |-> it.outer + 1, inner |-> <<it.outer + 1, 0>>,
                    yield |-> None]
         ELSE [outer |-> it.outer, inner |-> it.inner, yield |-> None]

\* One call of next by a consumer that stops at the first None.
PeakNext(e) ==
    /\ peek[e].active
    /\ ~peek[e].done
    /\ LET r == PeakIterNext(peek[e], incoming[e])
       IN peek' = [peek EXCEPT ![e] =
                      [active |-> TRUE, outer |-> r.outer, inner |-> r.inner,
                       out |-> IF r.yield = None THEN peek[e].out
                               ELSE Append(peek[e].out, r.yield[1]),
                       done |-> r.yield = None]]
    /\ UNCHANGED <<mgrVars, entryVars, owner, taskVars, bufVars, envVars, hooks,
                   dropStage>>
    /\ UNCHANGED quicVars

\* The iterator is dropped, and its guard with it.
PeakDrop(e) ==
    /\ peek[e].active
    /\ lock' = [lock EXCEPT ![e] = "free"]
    /\ peek' = [peek EXCEPT ![e] = NoPeek]
    /\ UNCHANGED <<mgrVars, entryVars, owner, pc, write_result, read_result,
                   additional_result, bufVars, envVars, hooks, dropStage>>
    /\ UNCHANGED quicVars

\* One entry as register builds it for socket 1, its handle with the owner.
InitEntry ==
    /\ sockets = <<1>>
    /\ socket = [e \in Ids |-> IF e = 1 THEN Some(1) ELSE None]
    /\ drop_flag = [e \in Ids |-> FALSE]
    /\ data = [e \in Ids |-> [written |-> 0, read |-> 0]]
    /\ owner = [e \in Ids |-> e = 1]
    /\ nextId = 2
    /\ regResult = [tag |-> "Ok", buffer |-> 1]
    /\ mpc = "idle"
    /\ tasks = <<>>
    /\ pc = [e \in Ids |-> "idle"]
    /\ lock = [e \in Ids |-> "free"]
    /\ write_result = [e \in Ids |-> "-"]
    /\ read_result = [e \in Ids |-> "-"]
    /\ additional_result = [e \in Ids |-> "-"]
    /\ terminal_error = [e \in Ids |-> BuildBuffer.terminal_error]
    /\ bytes_read_last = [e \in Ids |-> BuildBuffer.bytes_read_last]
    /\ incoming = [e \in Ids |-> BuildBuffer.incoming]
    /\ outgoing = [e \in Ids |-> BuildBuffer.outgoing]
    /\ peek = [e \in Ids |-> NoPeek]
    /\ sent = [e \in Ids |-> <<>>]
    /\ queued = [e \in Ids |-> <<>>]
    /\ rnext = [e \in Ids |-> 0]
    /\ wio = [e \in Ids |-> "none"]
    /\ rio = [e \in Ids |-> "none"]
    /\ hooks = [e \in Ids |-> <<>>]
    /\ dropStage = [e \in Ids |-> "held"]
    /\ liveAtStart = {}
    /\ cycleDone = FALSE
    /\ AdapterUnused

NextEntry ==
    \/ \E e \in Ids : EntryUpdateStart(e)
    \/ \E e \in Ids : AcquireLock(e)
    \/ \E e \in Ids : \E h \in 0..MaxChunkLen, n \in 0..MaxChunkLen : FlushWriteOk(e, h, n)
    \/ \E e \in Ids : \E kind \in ErrorKinds : FlushWriteErr(e, kind)
    \/ \E e \in Ids : FlushPanic(e)
    \/ \E e \in Ids : \E n \in 0..MaxRead : FillReadOk(e, n)
    \/ \E e \in Ids : \E kind \in ReadErrorKinds : FillReadErr(e, kind)
    \/ \E e \in Ids : AdditionalUpdates(e)
    \/ \E e \in Ids : UpdateFinish(e)
    \/ \E e \in Ids : \E n \in 0..MaxChunkLen : OwnerWrite(e, n)
    \/ \E e \in Ids : PeakNew(e)
    \/ \E e \in Ids : PeakNext(e)
    \/ \E e \in Ids : PeakDrop(e)
    \/ \E e \in Ids : DropHandle(e)

SpecEntry == InitEntry /\ [][NextEntry]_vars

Next ==
    \/ \E b \in BuildResults : Register(nextId, b)
    \/ \E e \in Ids : DropHandle(e)
    \/ UpdateBegin
    \/ UpdateSpawn
    \/ \E i \in 1..MaxSockets : TaskRun(i)
    \/ UpdateJoin

Spec == Init /\ [][Next]_vars

\* The executor keeps polling the future of SocketManger::update until it
\* returns, and the task pool runs every task spawned on it.
SpecFair ==
    /\ Spec
    /\ WF_vars(UpdateSpawn)
    /\ WF_vars(UpdateJoin)
    /\ \A i \in 1..MaxSockets : WF_vars(TaskRun(i))

\* -------------------------------------- a generic Buffer implementor
\* B::flush_write_bufs of a generic Buffer implementor returns r.
GenericFlush(e, r) ==
    /\ pc[e] = "flush"
    /\ write_result' = [write_result EXCEPT ![e] = r]
    /\ pc' = [pc EXCEPT ![e] = "fill"]
    /\ UNCHANGED <<mgrVars, entryVars, owner, lock, read_result,
                   additional_result, bufVars, peek, envVars, hooks, dropStage>>
    /\ UNCHANGED quicVars

\* B::fill_read_bufs returns r.
GenericFill(e, r) ==
    /\ pc[e] = "fill"
    /\ hooks' = [hooks EXCEPT ![e] = Append(hooks[e], "fill")]
    /\ read_result' = [read_result EXCEPT ![e] = r]
    /\ pc' = [pc EXCEPT ![e] = "additional"]
    /\ UNCHANGED <<mgrVars, entryVars, owner, lock, write_result,
                   additional_result, bufVars, peek, envVars, dropStage>>
    /\ UNCHANGED quicVars

\* B::additional_updates returns r.
GenericAdditional(e, r) ==
    /\ pc[e] = "additional"
    /\ hooks' = [hooks EXCEPT ![e] = Append(hooks[e], "additional")]
    /\ additional_result' = [additional_result EXCEPT ![e] = r]
    /\ pc' = [pc EXCEPT ![e] = "finish"]
    /\ UNCHANGED <<mgrVars, entryVars, owner, lock, write_result, read_result,
                   bufVars, peek, envVars, dropStage>>
    /\ UNCHANGED quicVars

\* Two entries as register builds them for sockets 1 and 2, their handles
\* with their owners.
InitGeneric ==
    /\ sockets = <<1, 2>>
    /\ socket = [e \in Ids |-> IF e \in {1, 2} THEN Some(e) ELSE None]
    /\ drop_flag = [e \in Ids |-> FALSE]
    /\ data = [e \in Ids |-> [written |-> 0, read |-> 0]]
    /\ owner = [e \in Ids |-> e \in {1, 2}]
    /\ nextId = 3
    /\ regResult = [tag |-> "Ok", buffer |-> 2]
    /\ mpc = "idle"
    /\ tasks = <<>>
    /\ pc = [e \in Ids |-> "idle"]
    /\ lock = [e \in Ids |-> "free"]
    /\ write_result = [e \in Ids |-> "-"]
    /\ read_result = [e \in Ids |-> "-"]
    /\ additional_result = [e \in Ids |-> "-"]
    /\ terminal_error = [e \in Ids |-> "None"]
    /\ bytes_read_last = [e \in Ids |-> 0]
    /\ incoming = [e \in Ids |-> <<>>]
    /\ outgoing = [e \in Ids |-> <<>>]
    /\ peek = [e \in Ids |-> NoPeek]
    /\ sent = [e \in Ids |-> <<>>]
    /\ queued = [e \in Ids |-> <<>>]
    /\ rnext = [e \in Ids |-> 0]
    /\ wio = [e \in Ids |-> "none"]
    /\ rio = [e \in Ids |-> "none"]
    /\ hooks = [e \in Ids |-> <<>>]
    /\ dropStage = [e \in Ids |-> "held"]
    /\ liveAtStart = {}
    /\ cycleDone = FALSE
    /\ AdapterUnused

NextGeneric ==
    \/ \E e \in Ids : EntryUpdateStart(e)
    \/ \E e \in Ids : AcquireLock(e)
    \/ \E e \in Ids : \E r \in UpdateResults : GenericFlush(e, r)
    \/ \E e \in Ids : \E r \in UpdateResults : GenericFill(e, r)
    \/ \E e \in Ids : \E r \in UpdateResults : GenericAdditional(e, r)
    \/ \E e \in Ids : UpdateFinish(e)
    \/ \E e \in Ids : DropHandle(e)

SpecGeneric == InitGeneric /\ [][NextGeneric]_vars

\* ------------------------------------------ the runtime adapter (quic.rs)
\* IoTaskPool::get().spawn(async move { waker.wake() }).detach():
\* one more wake task for the task that polled t.
SpawnWake(w, t) == [w EXCEPT ![t] = @ + 1]

\* Faulty variant: the expiry instant itself does not count as expired.
ExpiredBug(n, x) == n > x

\* now >= self.expiry
Expired(n, x) == n >= x

\* <IoTimer as AsyncTimer>::reset(i): self.expiry = i.
TimerReset(i) ==
    /\ expiry' = i
    /\ UNCHANGED <<poller, now, rx, res, woken, wakes, wcalls, wpendings,
                   completed, easyVars>>

\* <IoTimer as AsyncTimer>::poll, which is <IoTimer as Future>::poll.
IoTimerPoll ==
    /\ wakes["timer"] < MaxWakes
    /\ woken' = [woken EXCEPT !["timer"] = FALSE]
    /\ IF Expired(now, expiry)
       THEN /\ res' = [res EXCEPT !["timer"] = "Ready"]
            /\ completed' = TRUE
            /\ UNCHANGED wakes
       ELSE /\ wakes' = SpawnWake(wakes, "timer")
            /\ res' = [res EXCEPT !["timer"] = "Pending"]
            /\ UNCHANGED completed
    /\ UNCHANGED <<poller, expiry, now, rx, wcalls, wpendings, easyVars>>

\* Faulty variant: the WouldBlock arm returns Pending without spawning the
\* wake task.
PollRecvBug ==
    /\ wakes["recv"] < MaxWakes
    /\ woken' = [woken EXCEPT !["recv"] = FALSE]
    /\ IF rx = "Ok"
       THEN res' = [res EXCEPT !["recv"] = "ReadyOk"] /\ rx' = "WouldBlock"
       ELSE IF rx = "WouldBlock"
            THEN res' = [res EXCEPT !["recv"] = "Pending"] /\ UNCHANGED rx
            ELSE res' = [res EXCEPT !["recv"] = "ReadyErr"] /\ rx' = "WouldBlock"
    /\ UNCHANGED <<poller, expiry, now, wakes, wcalls, wpendings, completed,
                   easyVars>>

\* QuinnUdp::poll_recv: one non-blocking recv.  A datagram or an error that
\* recv has returned is not returned again.
PollRecv ==
    /\ wakes["recv"] < MaxWakes
    /\ woken' = [woken EXCEPT !["recv"] = FALSE]
    /\ IF rx = "Ok"
       THEN /\ res' = [res EXCEPT !["recv"] = "ReadyOk"]
            /\ rx' = "WouldBlock"
            /\ UNCHANGED wakes
       ELSE IF rx = "WouldBlock"
            THEN /\ wakes' = SpawnWake(wakes, "recv")
                 /\ res' = [res EXCEPT !["recv"] = "Pending"]
                 /\ UNCHANGED rx
            ELSE /\ res' = [res EXCEPT !["recv"] = "ReadyErr"]
                 /\ rx' = "WouldBlock"
                 /\ UNCHANGED wakes
    /\ UNCHANGED <<poller, expiry, now, wcalls, wpendings, completed, easyVars>>

\* Faulty variant: self.0 is left false.
PollWritableBug ==
    /\ wakes["writable"] < MaxWakes
    /\ wcalls < MaxPolls
    /\ wcalls' = wcalls + 1
    /\ woken' = [woken EXCEPT !["writable"] = FALSE]
    /\ IF poller
       THEN /\ res' = [res EXCEPT !["writable"] = "ReadyOk"]
            /\ UNCHANGED <<wakes, wpendings>>
       ELSE /\ wakes' = SpawnWake(wakes, "writable")
            /\ res' = [res EXCEPT !["writable"] = "Pending"]
            /\ wpendings' = wpendings + 1
    /\ UNCHANGED <<poller, expiry, now, rx, completed, easyVars>>

\* QuinnPoller::poll_writable
PollWritable ==
    /\ wakes["writable"] < MaxWakes
    /\ wcalls < MaxPolls
    /\ wcalls' = wcalls + 1
    /\ woken' = [woken EXCEPT !["writable"] = FALSE]
    /\ IF poller
       THEN /\ res' = [res EXCEPT !["writable"] = "ReadyOk"]
            /\ UNCHANGED <<poller, wakes, wpendings>>
       ELSE /\ poller' = TRUE
            /\ wakes' = SpawnWake(wakes, "writable")
            /\ res' = [res EXCEPT !["writable"] = "Pending"]
            /\ wpendings' = wpendings + 1
    /\ UNCHANGED <<expiry, now, rx, completed, easyVars>>

\* A spawned wake task runs on the pool: waker.wake().
WakeRun(t) ==
    /\ wakes[t] > 0
    /\ wakes' = [wakes EXCEPT ![t] = @ - 1]
    /\ woken' = [woken EXCEPT ![t] = TRUE]
    /\ UNCHANGED <<poller, expiry, now, rx, res, wcalls, wpendings, completed,
                   easyVars>>

\* Time passes: Instant::now() is monotonic.
Tick ==
    /\ now < MaxTime
    /\ now' = now + 1
    /\ UNCHANGED <<poller, expiry, rx, res, woken, wakes, wcalls, wpendings,
                   completed, easyVars>>

\* The socket gets a datagram, or an error, for the next recv to return.
Arrive(k) ==
    /\ rx = "WouldBlock"
    /\ k # "WouldBlock"
    /\ rx' = k
    /\ UNCHANGED <<poller, expiry, now, res, woken, wakes, wcalls, wpendings,
                   completed, easyVars>>

\* BevyQuinnRuntime::new_timer(i) has made the timer IoTimer::new(i),
\* create_io_poller the poller QuinnPoller(false); nothing is polled yet.
InitQuic ==
    /\ InitManager
    /\ poller = FALSE
    /\ expiry \in Instants
    /\ now = 0
    /\ rx = "WouldBlock"
    /\ res = [t \in PollFns |-> "none"]
    /\ woken = [t \in PollFns |-> FALSE]
    /\ wakes = [t \in PollFns |-> 0]
    /\ wcalls = 0
    /\ wpendings = 0
    /\ completed = FALSE

NextQuic ==
    \/ \E i \in Instants : TimerReset(i)
    \/ IoTimerPoll
    \/ PollRecv
    \/ PollWritable
    \/ \E t \in PollFns : WakeRun(t)
    \/ Tick
    \/ \E k \in RecvOutcomes : Arrive(k)

SpecQuic == InitQuic /\ [][NextQuic]_vars

\* The poll function t, called by a task its waker has woken.
RePoll(t) ==
    /\ woken[t]
    /\ IF t = "timer" THEN IoTimerPoll
       ELSE IF t = "recv" THEN PollRecv ELSE PollWritable

\* The pool runs every task spawned on it, and a woken task is polled again.
SpecQuicFair ==
    /\ SpecQuic
    /\ \A t \in PollFns : WF_vars(WakeRun(t)) /\ WF_vars(RePoll(t))

\* =============================================================== claims
ConnectionKinds ==
    {"ConnectionRefused", "ConnectionReset", "ConnectionAborted", "NotConnected"}

AllHooks == <<"flush", "fill", "additional">>

\* C1 (as claimed; the code breaks it): once the owner has dropped its
\* OwnedBuffer, the entry is out of the manager's collection when the first
\* update cycle that started after the drop has returned.
C1_DroppedEntryRetiredWithinOneCycle ==
    \A e \in Ids : dropStage[e] = "cycleDone" => e \notin Range(sockets)

C3_FailedRegisterReturnsSocketUnchanged ==
    [][\A s \in Ids :
          Register(s, "Err") =>
              /\ regResult' = [tag |-> "Err", socket |-> s,
                               error |-> "ConstructionError"]
              /\ sockets' = sockets
              /\ socket' = socket
              /\ drop_flag' = drop_flag
              /\ data' = data
              /\ owner' = owner
              /\ <<terminal_error, bytes_read_last, incoming, outgoing>>' =
                     <<terminal_error, bytes_read_last, incoming, outgoing>>]_vars

\* C3 witness: register has failed on the second socket with the first
\* socket's entry in the collection.
C3_Witness ==
    /\ regResult = [tag |-> "Err", socket |-> 2, error |-> "ConstructionError"]
    /\ sockets = <<1>>

\* C4: within one update of an entry the hooks are invoked in the order
\* flush_write_bufs, fill_read_bufs, additional_updates, each after the one
\* before has returned, and the task holds the buffer's lock from before the
\* first to after the last.
C4_HooksInOrderUnderOneLock ==
    \A e \in Ids :
        /\ pc[e] = "flush" => hooks[e] = <<"flush">> /\ lock[e] = "task"
        /\ pc[e] = "fill" => hooks[e] = <<"flush">> /\ lock[e] = "task"
        /\ pc[e] = "additional" => hooks[e] = <<"flush", "fill">> /\ lock[e] = "task"
        /\ pc[e] = "finish" => hooks[e] = AllHooks /\ lock[e] = "task"
        /\ pc[e] \in {"idle", "lock"} => hooks[e] = <<>>

\* C4 witness: an update has run its three hooks and is about to return.
C4_Witness ==
    pc[1] = "finish" /\ hooks[1] = AllHooks /\ lock[1] = "task"

\* C5 (as claimed; the code breaks it): when a cycle has returned, every
\* entry that was live at its start has had each of its three hooks invoked
\* once, in that cycle.
C5_LiveEntriesUpdatedOncePerCycle ==
    cycleDone => \A e \in liveAtStart : hooks[e] = AllHooks

\* C6 (as claimed; the code breaks it): WouldBlock on read, and WouldBlock
\* or zero bytes accepted on write, are benign: the hook returns Ok and
\* leaves terminal_error alone, and an update whose I/O results were all of
\* these (or a successful read) leaves the socket attached.
C6_WouldBlockAndZeroWriteBenign ==
    [][\A e \in Ids :
          /\ (pc[e] = "flush" /\ wio'[e] \in {"WouldBlock", "Ok0"}) =>
                 /\ write_result'[e] = "Ok"
                 /\ terminal_error'[e] = terminal_error[e]
          /\ (pc[e] = "fill" /\ rio'[e] = "WouldBlock") =>
                 /\ read_result'[e] = "Ok"
                 /\ terminal_error'[e] = terminal_error[e]
          /\ (pc[e] = "finish" /\ pc'[e] = "idle"
                 /\ wio[e] \in {"WouldBlock", "Ok0"}
                 /\ rio[e] \in {"WouldBlock", "Ok"}) =>
                 socket'[e] = socket[e] /\ socket[e] # None]_vars

\* C7 (as claimed; the code breaks it): when the write of an update failed
\* with ConnectionReset, ConnectionAborted, ConnectionRefused or
\* NotConnected, the update returns with terminal_error NotConnected and the
\* socket absent.
C7_ConnectionErrorOnWriteIsNotConnected ==
    [][\A e \in Ids :
          (pc[e] = "finish" /\ pc'[e] = "idle" /\ wio[e] \in ConnectionKinds) =>
              terminal_error'[e] = "NotConnected" /\ socket'[e] = None]_vars

\* C8: a write that accepts k bytes hands the socket the first k bytes of the
\* front chunk; when k is less than the chunk's length n the front chunk is
\* left holding its last n-k bytes in order and the later chunks are as they
\* were; and at all times the bytes handed to the socket followed by what
\* outgoing holds are exactly the queued chunks' bytes in queue order.
C8_PartialWriteKeepsOrder ==
    /\ [](\A e \in Ids : sent[e] \o Flatten(outgoing[e]) = Flatten(queued[e]))
    /\ [][\A e \in Ids :
             sent'[e] # sent[e] =>
                 LET q == outgoing[e]
                     n == Len(q[1])
                     k == Len(sent'[e]) - Len(sent[e])
                 IN /\ k \in 1..n
                    /\ sent'[e] = sent[e] \o SubSeq(q[1], 1, k)
                    /\ k < n => outgoing'[e] = <<SubSeq(q[1], k + 1, n)>> \o Tail(q)
                    /\ IsPrefix(sent'[e], Flatten(queued[e]))]_vars

\* C8 witness: one byte of the two-byte front chunk has been accepted, a
\* second chunk waits behind it.
C8_Witness ==
    /\ pc[1] = "flush"
    /\ sent[1] = <<1>>
    /\ outgoing[1] = <<<<2>>, <<3, 4>>>>

\* C9 (as claimed; the code breaks it): a write that accepts exactly as many
\* bytes as the front chunk holds removes that chunk, and a write that
\* accepts fewer leaves a front chunk that is not empty.
C9_ExactWritePopsChunk ==
    [][\A e \in Ids : \A h \in 0..MaxChunkLen : \A n \in 0..MaxChunkLen :
          FlushWriteOk(e, h, n) =>
              /\ n = Len(outgoing[e][1]) => outgoing'[e] = Tail(outgoing[e])
              /\ n < Len(outgoing[e][1]) => outgoing'[e][1] # <<>>]_vars

\* C10 (as claimed; the code breaks it): a peek iterator run until it
\* returns None has yielded the concatenation of all chunks of incoming, in
\* order.
C10_PeekYieldsAllOfIncoming ==
    \A e \in Ids :
        (peek[e].active /\ peek[e].done) => peek[e].out = Flatten(incoming[e])

\* Positions of an update at which one of the three hooks is executing or
\* has returned with the guard still held.
HookPcs == {"flush", "fill", "additional", "finish"}

\* C11: while a peek iterator is alive the owner holds the buffer's lock and
\* the update task of that entry is not in flush_write_bufs, fill_read_bufs or
\* additional_updates; while the update task is in its hooks it holds the
\* lock and no peek iterator is alive.  The lock has one holder at a time.
C11_PeekExcludesUpdateHooks ==
    \A e \in Ids :
        /\ peek[e].active => lock[e] = "owner" /\ pc[e] \notin HookPcs
        /\ pc[e] \in HookPcs => lock[e] = "task" /\ ~peek[e].active

\* C11 witness: a peek iterator is alive and part-way through its traversal
\* while the update task of the entry waits for the lock.
C11_Witness ==
    peek[1].active /\ peek[1].out # <<>> /\ pc[1] = "lock" /\ lock[1] = "owner"

\* What an entry is made of, with its buffer and the state of its update.
EntryState(f) ==
    <<socket[f], drop_flag[f], data[f], owner[f], pc[f], lock[f],
      terminal_error[f], bytes_read_last[f], incoming[f], outgoing[f]>>

StrongCount(e) ==
    (IF owner[e] THEN 1 ELSE 0) + (IF TaskHoldsArc(e) THEN 1 ELSE 0)

C14_PendingExactlyOnFirstPoll ==
    /\ [][PollWritable =>
             /\ (wcalls = 0) => res'["writable"] = "Pending"
             /\ (wcalls > 0) => res'["writable"] = "ReadyOk"]_vars
    /\ [](wcalls > 0 => wpendings = 1)

\* C14 witness: the poller has been polled MaxPolls times; one call returned
\* Pending and the last returned Ready(Ok).
C14_Witness ==
    wcalls = MaxPolls /\ wpendings = 1 /\ res["writable"] = "ReadyOk"

\* C15: a poll of the timer returns Ready exactly when the clock is at or
\* past the expiry, which is the instant last given to new_timer or reset;
\* so a timer that has completed and is then reset to a later instant
\* returns Pending until the clock reaches it.
C15_TimerReadyIffExpired ==
    [][/\ IoTimerPoll =>
             /\ (now >= expiry) => res'["timer"] = "Ready"
             /\ (now < expiry) => res'["timer"] = "Pending"
       /\ \A i \in Instants :
             TimerReset(i) => expiry' = i /\ res' = res /\ now' = now]_vars

\* C15 witness: the timer has reported completion, was reset to a later
\* instant, and its last poll returned Pending.
C15_Witness ==
    completed /\ res["timer"] = "Pending" /\ now < expiry

\* C16: a poll that returns Pending has spawned a wake for its task, so a
\* task whose last poll returned Pending has a wake scheduled or has been
\* woken; poll_recv returns Ready at once when recv gives a datagram or an
\* error other than WouldBlock; and a task that polls again on each wake
\* gets Ready from the timer once it has expired (unless it is reset to a
\* later instant), from poll_recv once a datagram or an error is there, and
\* from poll_writable after its one Pending.
C16_NoLostWakeup ==
    /\ [](\A t \in PollFns : res[t] = "Pending" => wakes[t] > 0 \/ woken[t])
    /\ [][/\ PollRecv =>
                /\ rx = "Ok" => res'["recv"] = "ReadyOk"
                /\ rx = "ConnectionReset" => res'["recv"] = "ReadyErr"
                /\ rx = "WouldBlock" =>
                       res'["recv"] = "Pending" /\ wakes'["recv"] = wakes["recv"] + 1
          /\ IoTimerPoll =>
                (res'["timer"] = "Pending" => wakes'["timer"] = wakes["timer"] + 1)
          /\ PollWritable =>
                (res'["writable"] = "Pending" =>
                     wakes'["writable"] = wakes["writable"] + 1)]_vars
    /\ (res["timer"] = "Pending" /\ now >= expiry)
           ~> (res["timer"] = "Ready" \/ now < expiry)
    /\ (res["recv"] = "Pending" /\ rx # "WouldBlock")
           ~> (res["recv"] \in {"ReadyOk", "ReadyErr"})
    /\ (res["writable"] = "Pending") ~> (res["writable"] = "ReadyOk")

\* C16 witness: poll_recv returned Pending, its wake task has run and woken
\* the task, and a datagram is there for the poll that follows.
C16_Witness ==
    /\ res["recv"] = "Pending"
    /\ woken["recv"]
    /\ wakes["recv"] = 0
    /\ rx = "Ok"

\* C17 (as claimed; the code breaks it): flush_write_bufs never aborts on
\* the front of an empty outgoing queue: a turn of its loop that finds
\* outgoing empty returns Ok, whether the queue was empty at the call or the
\* socket has just accepted the last queued byte.
C17_FlushStopsWhenQueueEmpty ==
    [][\A e \in Ids :
          (pc[e] = "flush" /\ outgoing[e] = <<>> /\ pc'[e] # pc[e]) =>
              /\ pc'[e] = "fill"
              /\ write_result'[e] = "Ok"
              /\ wio'[e] # "panic"]_vars

\* C18 (as claimed; the code breaks it): for a generic Buffer implementor,
\* the update that returns clears the socket exactly when one of its three
\* hook results is Err(Drop).
C18_AnyDropClearsSocket ==
    [][\A e \in Ids :
          (pc[e] = "finish" /\ pc'[e] = "idle") =>
              /\ socket[e] # None
              /\ (socket'[e] = None) <=>
                     ("Drop" \in {write_result[e], read_result[e],
                                  additional_result[e]})
              /\ socket'[e] # None => socket'[e] = socket[e]]_vars

\* No entry occurs twice in the sequence.
NoDup(q) == \A i, j \in 1..Len(q) : q[i] = q[j] => i = j

\* The entries the manager holds: those in the collection and those moved
\* into a task of the running cycle that has not returned None.
Held ==
    sockets \o
    [i \in 1..Len(SelectSeq(tasks, LAMBDA t : t.state = "spawned" \/ t.out # None))
        |-> SelectSeq(tasks, LAMBDA t : t.state = "spawned" \/ t.out # None)[i].entry]

\* C19: the manager holds no entry twice; a successful register adds the one
\* new entry, at the end of the collection, and nothing else; no other step
\* adds an entry, and an entry leaves only by being retired (its task
\* returns None on its drop_flag); so when a cycle has returned the
\* collection holds exactly the entries it held before, less the retired.
C19_EntryConservation ==
    /\ [](NoDup(Held))
    /\ [](mpc = "idle" => tasks = <<>> /\ Held = sockets)
    /\ [][/\ \A s \in Ids :
                Register(s, "Ok") =>
                    s \notin Range(Held) /\ sockets' = Append(sockets, s)
          /\ (\A s \in Ids : ~Register(s, "Ok")) =>
                Range(Held') \subseteq Range(Held)
          /\ Range(Held) \ Range(Held') \subseteq {e \in Ids : drop_flag[e]}]_vars

\* C19 witness: three entries were registered and a cycle has returned with
\* the three of them in the collection, in the reverse of their order.
C19_Witness ==
    cycleDone /\ mpc = "idle" /\ sockets = <<3, 2, 1>>

\* C20: an entry in the collection whose socket is absent has a terminal
\* error recorded on its buffer, and the socket of an entry, once absent,
\* stays absent.
C20_SocketAbsentImpliesTerminalError ==
    /\ [](\A e \in Range(sockets) :
             socket[e] = None => terminal_error[e] # "None")
    /\ [][\A e \in Range(sockets) :
             socket[e] = None => socket'[e] = None]_vars

\* C20 witness: a write failed with a connection error; the update has
\* returned, the socket is gone and NotConnected is recorded.
C20_Witness ==
    /\ socket[1] = None
    /\ pc[1] = "idle"
    /\ terminal_error[1] = "NotConnected"
    /\ ~drop_flag[1]

\* C21: a cycle that has started returns: every task it spawned completes
\* and is awaited, and the cycle ends with no task left and every entry its
\* tasks handed back in the collection; a cycle starts only when none is
\* running.
C21_CycleTerminates ==
    /\ (mpc # "idle") ~> (mpc = "idle" /\ cycleDone /\ tasks = <<>>)
    /\ [][/\ (mpc # "spawn" /\ mpc' = "spawn") => mpc = "idle" /\ tasks = <<>>
          /\ (mpc = "join" /\ mpc' = "idle") => tasks = <<>> /\ Held = sockets
          /\ (Len(tasks') < Len(tasks)) =>
                 Head(tasks).state = "done" /\ tasks' = Tail(tasks)]_vars
    /\ [](cycleDone => mpc = "idle" /\ tasks = <<>>)

\* C21 witness: a cycle over two entries has returned; the owner of one of
\* them dropped its handle while the cycle ran; both are in the collection.
C21_Witness ==
    /\ cycleDone
    /\ sockets = <<2, 1>>
    /\ dropStage[1] = "dropped"
    /\ owner[2]

\* C22 (as claimed; the code breaks it): within one update of an entry, once
\* flush_write_bufs has recorded a terminal error and signalled Drop, the
\* hooks that run after it in the same update leave that terminal error as
\* it is, so it is the one the owner finds when the update has returned.
C22_FirstTerminalErrorKept ==
    [][\A e \in Ids :
          (write_result[e] = "Drop" /\ pc[e] \in HookPcs) =>
              terminal_error'[e] = terminal_error[e]]_vars

\* C23 (as claimed; the code breaks it): incoming never holds an empty
\* chunk: a read that delivers n >= 1 bytes appends one chunk holding those
\* n bytes at the back, and a read that delivers no byte appends nothing.
C23_NoEmptyChunkInIncoming ==
    /\ [](\A e \in Ids : \A i \in 1..Len(incoming[e]) : incoming[e][i] # <<>>)
    /\ [][\A e \in Ids : \A n \in 0..MaxRead :
             FillReadOk(e, n) =>
                 incoming'[e] = IF n = 0 THEN incoming[e]
                                ELSE Append(incoming[e], Bytes(rnext[e], n))]_vars

\* C24 (as claimed; the code breaks it): outgoing progress, in the form a
\* finite run can refute.  flush_write_bufs gives up with chunks still in
\* outgoing only because the socket took no byte of a non-empty write, so
\* that a socket which takes at least one byte of every non-empty write has
\* every update hand it a byte until outgoing is empty; and a zero-length
\* chunk does not stay at the front of outgoing across a flush.
C24_FlushStopsOnlyWhenRefused ==
    [][\A e \in Ids :
          (pc[e] = "flush" /\ pc'[e] = "fill" /\ wio'[e] = "Ok0") =>
              outgoing[e][1] # <<>>]_vars

====
